---- MODULE Spec2Model ----
(***************************************************************************)
(* Model of keep_alive.py: the keep-alive background thread                *)
(* (keep_alive_loop), its two outbound calls (check_health,                *)
(* ping_endpoint), the shared status record and the two Flask routes       *)
(* (home, health) served concurrently with the thread.                     *)
(***************************************************************************)
EXTENDS Integers, Sequences, FiniteSets, TLC

\* ------------------------------------------------------------------ bounds

\* Cycles the background thread may start before the model stops it.
MaxCycles == 2

\* Largest worker count a health report carries.
MaxWorkers == 1

\* ------------------------------------------------------------- configuration

\* ENDPOINTS: the endpoints to keep warm, in list order.
ENDPOINTS ==
    << [id |-> "hk5uyae5jtmhmy", name |-> "Sam (vLLM)"],
       [id |-> "or07okhb435hr6", name |-> "fast-worker"],
       [id |-> "2ufs6kt7vd3r6v", name |-> "quality-worker"] >>

EndpointNames == { ENDPOINTS[i].name : i \in 1..Len(ENDPOINTS) }

\* Values os.environ.get("RUNPOD_API_KEY") can give: None (unset), the empty
\* string, or a key.
ApiKeyValues == { "None", "", "rpa_key" }

\* Python None, as the value of status["last_ping"].
None == "None"

\* The result recorded for an endpoint that was not pinged.
SkippedResult == "SKIPPED (no workers)"

\* ------------------------------------------------------- outbound responses

\* A missing key of the workers object.
Missing == -1

Counts == { Missing } \cup (0..MaxWorkers)

NoWorkers == [ready |-> Missing, idle |-> Missing, initializing |-> Missing]

\* What requests.get(.../health, timeout=30) can produce: an exception
\* (timeout, connection error) or a response whose body is not JSON, is JSON
\* but not an object, or is an object whose "workers" key is missing, is not
\* an object, or is an object with optional ready/idle/initializing counts.
HealthResponses ==
    { [kind |-> k, body |-> "", workers |-> "", counts |-> NoWorkers] :
        k \in { "timeout", "connection_error" } }
    \cup { [kind |-> "response", body |-> b, workers |-> "", counts |-> NoWorkers] :
        b \in { "invalid", "array" } }
    \cup { [kind |-> "response", body |-> "object", workers |-> w, counts |-> NoWorkers] :
        w \in { "missing", "array" } }
    \cup { [kind |-> "response", body |-> "object", workers |-> "object", counts |-> c] :
        c \in [ready : Counts, idle : Counts, initializing : Counts] }

HealthReport(r, i, n) ==
    [kind |-> "response", body |-> "object", workers |-> "object",
     counts |-> [ready |-> r, idle |-> i, initializing |-> n]]

\* The health responses the cycle model draws from: a connection error and
\* the reports ready=1 / ready=0,idle=0 / initializing=1,ready=0,idle=0.
CycleHealthResponses ==
    { [kind |-> "connection_error", body |-> "", workers |-> "", counts |-> NoWorkers],
      HealthReport(1, Missing, Missing),
      HealthReport(0, 0, Missing),
      HealthReport(0, 0, 1) }

StatusCodes == { 200, 201, 404, 502 }

\* What requests.post(.../runsync, timeout=120) can produce: an exception
\* (timeout, connection error) or a response with a status code and a body
\* that is a JSON object, other JSON, or not JSON.
PingResponses ==
    { [kind |-> k, status_code |-> 0, body |-> ""] :
        k \in { "timeout", "connection_error" } }
    \cup { [kind |-> "response", status_code |-> c, body |-> b] :
        c \in StatusCodes, b \in { "object", "array", "invalid" } }

\* The ping responses the cycle model draws from.
CyclePingResponses ==
    { [kind |-> "timeout", status_code |-> 0, body |-> ""],
      [kind |-> "response", status_code |-> 200, body |-> "object"],
      [kind |-> "response", status_code |-> 404, body |-> "object"],
      [kind |-> "response", status_code |-> 502, body |-> "invalid"] }

\* ------------------------------------------------------------ pure functions

Return(v) == [raised |-> "", value |-> v]
Raise(e) == [raised |-> e, value |-> ""]
ReturnBool(v) == [raised |-> "", value |-> v]
RaiseBool(e) == [raised |-> e, value |-> FALSE]

\* The exceptions the two try blocks can raise; all derive from Exception.
ExceptionClasses ==
    { "Timeout", "ConnectionError", "JSONDecodeError", "AttributeError" }

\* dict.get(key, 0) on the workers object.
Get(counts, key) == IF counts[key] = Missing THEN 0 ELSE counts[key]

\* The try block of ping_endpoint.
ping_try(r) ==
    IF r.kind = "timeout" THEN Raise("Timeout")
    ELSE IF r.kind = "connection_error" THEN Raise("ConnectionError")
    ELSE IF r.body = "invalid" THEN Raise("JSONDecodeError")
    ELSE IF r.status_code = 200
         THEN IF r.body = "object" THEN Return("OK")
              ELSE Raise("AttributeError")
         ELSE Return("HTTP " \o ToString(r.status_code))

\* Variant: `except Exception` comes first and swallows the timeout.
ping_endpoint_except_first(r) ==
    LET t == ping_try(r) IN
    IF t.raised = "" THEN t.value ELSE "ERROR: " \o t.raised

\* ping_endpoint: the try block and its two except clauses, in order.
ping_endpoint(r) ==
    LET t == ping_try(r) IN
    IF t.raised = "" THEN t.value
    ELSE IF t.raised = "Timeout" THEN "TIMEOUT"
    ELSE "ERROR: " \o t.raised

\* Variant: ping_endpoint has no `except Exception` clause.
PingEscapesUnlessTimeout(r) ==
    IF ping_try(r).raised \in { "", "Timeout" } THEN "" ELSE ping_try(r).raised

\* The exception that leaves ping_endpoint ("" for none): Timeout is caught
\* by the first except clause, every other Exception by the second.
PingEscapes(r) ==
    LET t == ping_try(r) IN
    IF t.raised = "" THEN ""
    ELSE IF t.raised = "Timeout" THEN ""
    ELSE IF t.raised \in ExceptionClasses THEN ""
    ELSE t.raised

\* The try block of check_health.
health_try(r) ==
    IF r.kind = "timeout" THEN RaiseBool("Timeout")
    ELSE IF r.kind = "connection_error" THEN RaiseBool("ConnectionError")
    ELSE IF r.body = "invalid" THEN RaiseBool("JSONDecodeError")
    ELSE IF r.body # "object" THEN RaiseBool("AttributeError")
    ELSE IF r.workers = "missing" THEN ReturnBool(FALSE)
    ELSE IF r.workers # "object" THEN RaiseBool("AttributeError")
    ELSE LET ready == Get(r.counts, "ready")
             idle == Get(r.counts, "idle")
         IN ReturnBool(ready > 0 \/ idle > 0)

\* Variant: an initializing worker counts as capacity.
check_health_with_init(r) ==
    LET t == health_try(r) IN
    IF t.raised = "" THEN t.value \/ Get(r.counts, "initializing") > 0 ELSE FALSE

\* check_health: the try block and its except clause.
check_health(r) ==
    LET t == health_try(r) IN
    IF t.raised = "" THEN t.value ELSE FALSE

\* Variant: check_health catches only the timeout.
HealthEscapesUnlessTimeout(r) ==
    IF health_try(r).raised \in { "", "Timeout" } THEN "" ELSE health_try(r).raised

\* The exception that leaves check_health ("" for none): `except Exception`
\* catches whatever the try block raises.
HealthEscapes(r) ==
    LET t == health_try(r) IN
    IF t.raised = "" THEN ""
    ELSE IF t.raised \in ExceptionClasses THEN ""
    ELSE t.raised

\* Variant: only the empty string counts as a missing key.
KeyEmpty(key) == key = ""

\* `not RUNPOD_API_KEY`
KeyMissing(key) == key \in { "None", "" }

\* datetime.now().isoformat() at clock reading t.
isoformat(t) == "T" \o ToString(t)

\* Variant: the mapping is replaced by one holding only the new entry.
SetItemFresh(results, name, value) == [ n \in { name } |-> value ]

\* status["results"][ep_name] = result
SetItem(results, name, value) ==
    [ n \in (DOMAIN results) \cup { name } |->
        IF n = name THEN value ELSE results[n] ]

\* --------------------------------------------------------------------- state

VARIABLES
    RUNPOD_API_KEY, \* the credential read from the environment at import
    main_pc,        \* position of the main thread in the __main__ block
    pc,             \* position of the background thread in keep_alive_loop
                    \* ("died": an exception left keep_alive_loop)
    idx,            \* position of `for endpoint in ENDPOINTS` (1-based)
    is_healthy,     \* local of keep_alive_loop
    result,         \* local of keep_alive_loop
    status,         \* the module-level status record
    clock,          \* the wall clock datetime.now() reads
    home_pc,        \* position of a request thread in home()
    home_count,     \* status["ping_count"] as home() evaluated it
    home_last,      \* status["last_ping"] as home() evaluated it
    response,       \* the HTTP response being handed to the client
    trace,          \* history: this cycle's calls per endpoint and what they got
    wrote,          \* history: the cycle that wrote each entry of results
    completed,      \* history: number of cycles that processed every endpoint
    outbound,       \* history: some outbound call has been made
    probe,          \* a single check_health call: argument, done, return value
    warm            \* a single ping_endpoint call: argument, done, return value

vars == << RUNPOD_API_KEY, main_pc, pc, idx, is_healthy, result, status, clock,
           home_pc, home_count, home_last, response,
           trace, wrote, completed, outbound, probe, warm >>

runner_vars == << pc, idx, is_healthy, result, status, clock,
                  trace, wrote, completed, outbound >>
home_vars == << home_pc, home_count, home_last >>
call_vars == << probe, warm >>

NoHealthCall == [kind |-> "none", body |-> "", workers |-> "", counts |-> NoWorkers]
NoPingCall == [kind |-> "none", status_code |-> 0, body |-> ""]
NoTrace == [health |-> NoHealthCall, returned |-> "none",
            pinged |-> FALSE, ping |-> NoPingCall,
            probes |-> 0, pings |-> 0]
\* Variant: the "status" field reports whether the thread is alive.
HomeDocumentLive(count, last, results) ==
    [status |-> IF pc = "exited" THEN "stopped" ELSE "running",
     service |-> "RunPod Keep-Alive",
     ping_count |-> count,
     last_ping |-> last,
     endpoints |-> [i \in 1..Len(ENDPOINTS) |-> ENDPOINTS[i].name],
     results |-> results]

\* The document home() returns; "results" is the status["results"] dict
\* itself, serialized by jsonify.
HomeDocument(count, last, results) ==
    [status |-> "running",
     service |-> "RunPod Keep-Alive",
     ping_count |-> count,
     last_ping |-> last,
     endpoints |-> [i \in 1..Len(ENDPOINTS) |-> ENDPOINTS[i].name],
     results |-> results]

\* No response: an empty path; `text` is the body of a text response, `json`
\* the document of a JSON response.
NoResponse == [path |-> "", text |-> "", json |-> HomeDocument(0, None, << >>)]

\* Variant: last_ping starts as the import time.
InitStatusStamped == [ping_count |-> 0, last_ping |-> "T0", results |-> << >>]

\* status = {"ping_count": 0, "last_ping": None, "results": {}}
InitStatus == [ping_count |-> 0, last_ping |-> None, results |-> << >>]

InitCycle ==
    /\ main_pc = "boot"
    /\ pc = "not_started"
    /\ idx = 0
    /\ is_healthy = FALSE
    /\ result = ""
    /\ status = InitStatus
    /\ clock = 1
    /\ home_pc = "idle"
    /\ home_count = 0
    /\ home_last = None
    /\ response = NoResponse
    /\ trace = [i \in 1..Len(ENDPOINTS) |-> NoTrace]
    /\ wrote = [n \in EndpointNames |-> 0]
    /\ completed = 0
    /\ outbound = FALSE

Init ==
    /\ RUNPOD_API_KEY \in ApiKeyValues
    /\ InitCycle
    /\ probe = [arg |-> NoHealthCall, done |-> FALSE, ret |-> FALSE]
    /\ warm = [arg |-> NoPingCall, done |-> FALSE, ret |-> ""]

\* ----------------------------------------------------------- the main thread

\* thread = threading.Thread(target=keep_alive_loop, daemon=True); thread.start()
ThreadStart ==
    /\ main_pc = "boot"
    /\ main_pc' = "thread_started"
    /\ pc' = "entry"
    /\ UNCHANGED << RUNPOD_API_KEY, idx, is_healthy, result, status, clock,
                    trace, wrote, completed, outbound >>
    /\ UNCHANGED << home_vars, response, call_vars >>

\* app.run(host="0.0.0.0", port=PORT)
AppRun ==
    /\ main_pc = "thread_started"
    /\ main_pc' = "serving"
    /\ UNCHANGED << RUNPOD_API_KEY, runner_vars, home_vars, response, call_vars >>

\* ----------------------------------------------------- the background thread

\* if not RUNPOD_API_KEY: logger.error(...); return
CheckKey ==
    /\ pc = "entry"
    /\ pc' = IF KeyMissing(RUNPOD_API_KEY) THEN "exited" ELSE "while"
    /\ UNCHANGED << RUNPOD_API_KEY, main_pc, idx, is_healthy, result, status,
                    clock, trace, wrote, completed, outbound >>
    /\ UNCHANGED << home_vars, response, call_vars >>

\* Variant: the counter is bumped twice per cycle.
NextCountTwice(c) == c + 2

\* status["ping_count"] += 1
NextCount(c) == c + 1

Increment ==
    /\ pc = "while"
    /\ status.ping_count < MaxCycles
    /\ status' = [status EXCEPT !.ping_count = NextCount(@)]
    /\ trace' = [i \in 1..Len(ENDPOINTS) |-> NoTrace]
    /\ pc' = "stamp"
    /\ UNCHANGED << RUNPOD_API_KEY, main_pc, idx, is_healthy, result, clock,
                    wrote, completed, outbound >>
    /\ UNCHANGED << home_vars, response, call_vars >>

\* Variant: the cycle's start time is not written before the loop begins.
StampSkipped ==
    /\ pc = "stamp"
    /\ idx' = 1
    /\ pc' = "for"
    /\ UNCHANGED << RUNPOD_API_KEY, main_pc, is_healthy, result, status, clock,
                    trace, wrote, completed, outbound >>
    /\ UNCHANGED << home_vars, response, call_vars >>

\* status["last_ping"] = datetime.now().isoformat(); the for loop begins
Stamp ==
    /\ pc = "stamp"
    /\ status' = [status EXCEPT !.last_ping = isoformat(clock)]
    /\ idx' = 1
    /\ pc' = "for"
    /\ UNCHANGED << RUNPOD_API_KEY, main_pc, is_healthy, result, clock,
                    trace, wrote, completed, outbound >>
    /\ UNCHANGED << home_vars, response, call_vars >>

\* for endpoint in ENDPOINTS: the next endpoint's check_health call goes out
ForNext ==
    /\ pc = "for"
    /\ idx <= Len(ENDPOINTS)
    /\ pc' = "check_health"
    /\ outbound' = TRUE
    /\ trace' = [trace EXCEPT ![idx].probes = @ + 1]
    /\ UNCHANGED << RUNPOD_API_KEY, main_pc, idx, is_healthy, result, status,
                    clock, wrote, completed >>
    /\ UNCHANGED << home_vars, response, call_vars >>

\* for endpoint in ENDPOINTS: the list is exhausted
ForDone ==
    /\ pc = "for"
    /\ idx > Len(ENDPOINTS)
    /\ pc' = "sleep"
    /\ completed' = completed + 1
    /\ UNCHANGED << RUNPOD_API_KEY, main_pc, idx, is_healthy, result, status,
                    clock, trace, wrote, outbound >>
    /\ UNCHANGED << home_vars, response, call_vars >>

\* is_healthy = check_health(ep_id, ep_name)
CheckHealthReturn ==
    /\ pc = "check_health"
    /\ \E r \in CycleHealthResponses :
         IF HealthEscapes(r) = ""
         THEN /\ is_healthy' = check_health(r)
              /\ trace' = [trace EXCEPT ![idx].health = r,
                                        ![idx].returned = ToString(check_health(r))]
              /\ pc' = "if"
         ELSE /\ trace' = [trace EXCEPT ![idx].health = r]
              /\ pc' = "died"
              /\ UNCHANGED is_healthy
    /\ UNCHANGED << RUNPOD_API_KEY, main_pc, idx, result, status, clock,
                    wrote, completed, outbound >>
    /\ UNCHANGED << home_vars, response, call_vars >>

\* Variant: the ping is sent whatever check_health returned.
PingAlways(healthy) == TRUE

\* if is_healthy:
PingWanted(healthy) == healthy

\* if is_healthy: the ping_endpoint call goes out
IfHealthy ==
    /\ pc = "if"
    /\ PingWanted(is_healthy)
    /\ pc' = "ping_endpoint"
    /\ trace' = [trace EXCEPT ![idx].pinged = TRUE, ![idx].pings = @ + 1]
    /\ UNCHANGED << RUNPOD_API_KEY, main_pc, idx, is_healthy, result, status,
                    clock, wrote, completed, outbound >>
    /\ UNCHANGED << home_vars, response, call_vars >>

\* else: result = "SKIPPED (no workers)"
ElseSkipped ==
    /\ pc = "if"
    /\ ~PingWanted(is_healthy)
    /\ result' = SkippedResult
    /\ pc' = "record"
    /\ UNCHANGED << RUNPOD_API_KEY, main_pc, idx, is_healthy, status, clock,
                    trace, wrote, completed, outbound >>
    /\ UNCHANGED << home_vars, response, call_vars >>

\* result = ping_endpoint(ep_id, ep_name)
PingReturn ==
    /\ pc = "ping_endpoint"
    /\ \E r \in CyclePingResponses :
         /\ trace' = [trace EXCEPT ![idx].ping = r]
         /\ IF PingEscapes(r) = ""
            THEN result' = ping_endpoint(r) /\ pc' = "record"
            ELSE pc' = "died" /\ UNCHANGED result
    /\ UNCHANGED << RUNPOD_API_KEY, main_pc, idx, is_healthy, status, clock,
                    wrote, completed, outbound >>
    /\ UNCHANGED << home_vars, response, call_vars >>

\* Variant: every result is stored under one fixed key.
ResultKeyFixed(e) == "result"

\* The key of the results entry written for endpoint e.
ResultKey(e) == e.name

\* Variant: the loop steps over the endpoint after the one it recorded.
RecordSkipOne ==
    /\ pc = "record"
    /\ status' = [status EXCEPT
                    !.results = SetItem(@, ResultKey(ENDPOINTS[idx]), result)]
    /\ wrote' = [wrote EXCEPT ![ENDPOINTS[idx].name] = status.ping_count]
    /\ idx' = idx + 2
    /\ pc' = "for"
    /\ UNCHANGED << RUNPOD_API_KEY, main_pc, is_healthy, result, clock,
                    trace, completed, outbound >>
    /\ UNCHANGED << home_vars, response, call_vars >>

\* Variant: an endpoint whose ping timed out is tried again at once.
RecordRetryTimeout ==
    /\ pc = "record"
    /\ status' = [status EXCEPT
                    !.results = SetItem(@, ResultKey(ENDPOINTS[idx]), result)]
    /\ wrote' = [wrote EXCEPT ![ENDPOINTS[idx].name] = status.ping_count]
    /\ idx' = IF result = "TIMEOUT" THEN idx ELSE idx + 1
    /\ pc' = "for"
    /\ UNCHANGED << RUNPOD_API_KEY, main_pc, is_healthy, result, clock,
                    trace, completed, outbound >>
    /\ UNCHANGED << home_vars, response, call_vars >>

\* status["results"][ep_name] = result
Record ==
    /\ pc = "record"
    /\ status' = [status EXCEPT
                    !.results = SetItem(@, ResultKey(ENDPOINTS[idx]), result)]
    /\ wrote' = [wrote EXCEPT ![ENDPOINTS[idx].name] = status.ping_count]
    /\ idx' = idx + 1
    /\ pc' = "for"
    /\ UNCHANGED << RUNPOD_API_KEY, main_pc, is_healthy, result, clock,
                    trace, completed, outbound >>
    /\ UNCHANGED << home_vars, response, call_vars >>

\* Variant: the thread does not survive the sleep.
SleepRaises ==
    /\ pc = "sleep"
    /\ clock' = clock + 1
    /\ pc' = "died"
    /\ UNCHANGED << RUNPOD_API_KEY, main_pc, idx, is_healthy, result, status,
                    trace, wrote, completed, outbound >>
    /\ UNCHANGED << home_vars, response, call_vars >>

\* time.sleep(PING_INTERVAL) returns
Sleep ==
    /\ pc = "sleep"
    /\ clock' = clock + 1
    /\ pc' = "while"
    /\ UNCHANGED << RUNPOD_API_KEY, main_pc, idx, is_healthy, result, status,
                    trace, wrote, completed, outbound >>
    /\ UNCHANGED << home_vars, response, call_vars >>

\* ----------------------------------------------------------- request threads

\* A request for "/" is dispatched to home().
HomeBegin ==
    /\ main_pc = "serving"
    /\ home_pc = "idle"
    /\ home_pc' = "ping_count"
    /\ UNCHANGED << RUNPOD_API_KEY, main_pc, runner_vars, home_count, home_last,
                    response, call_vars >>

\* "ping_count": status["ping_count"]
HomeReadCount ==
    /\ home_pc = "ping_count"
    /\ home_count' = status.ping_count
    /\ home_pc' = "last_ping"
    /\ UNCHANGED << RUNPOD_API_KEY, main_pc, runner_vars, home_last,
                    response, call_vars >>

\* "last_ping": status["last_ping"]
HomeReadLast ==
    /\ home_pc = "last_ping"
    /\ home_last' = status.last_ping
    /\ home_pc' = "results"
    /\ UNCHANGED << RUNPOD_API_KEY, main_pc, runner_vars, home_count,
                    response, call_vars >>

\* Variant: home() counts the request in the status record.
HomeRespondCounting ==
    /\ home_pc = "results"
    /\ response' = [path |-> "/", text |-> "",
                    json |-> HomeDocument(home_count, home_last, status.results)]
    /\ status' = [status EXCEPT !.ping_count = @ + 1]
    /\ home_pc' = "idle"
    /\ home_count' = 0
    /\ home_last' = None
    /\ UNCHANGED << RUNPOD_API_KEY, main_pc, pc, idx, is_healthy, result, clock,
                    trace, wrote, completed, outbound, call_vars >>

\* "results": status["results"]; return jsonify({...})
HomeRespond ==
    /\ home_pc = "results"
    /\ response' = [path |-> "/", text |-> "",
                    json |-> HomeDocument(home_count, home_last, status.results)]
    /\ home_pc' = "idle"
    /\ home_count' = 0
    /\ home_last' = None
    /\ UNCHANGED << RUNPOD_API_KEY, main_pc, runner_vars, call_vars >>

\* Variant: /health answers from the status record.
health_from_status == IF status.ping_count > 0 THEN "OK" ELSE "STARTING"

\* health(): return "OK"
health == "OK"

\* A request for "/health" is answered by health().
HealthRespond ==
    /\ main_pc = "serving"
    /\ response' = [NoResponse EXCEPT !.path = "/health", !.text = health]
    /\ UNCHANGED << RUNPOD_API_KEY, main_pc, runner_vars, home_vars, call_vars >>

\* The response leaves the process.
Deliver ==
    /\ response.path # ""
    /\ response' = NoResponse
    /\ UNCHANGED << RUNPOD_API_KEY, main_pc, runner_vars, home_vars, call_vars >>

\* No response is on its way to the client.
Quiet == response.path = ""

\* A response is handed to the client in the step after it is built.  No
\* other step reads `response`, so steps taken in between would only repeat
\* the same program states with the response still pending.
Next ==
    \/ Deliver
    \/ (Quiet /\ ThreadStart)
    \/ (Quiet /\ AppRun)
    \/ (Quiet /\ CheckKey)
    \/ (Quiet /\ Increment)
    \/ (Quiet /\ Stamp)
    \/ (Quiet /\ ForNext)
    \/ (Quiet /\ ForDone)
    \/ (Quiet /\ CheckHealthReturn)
    \/ (Quiet /\ IfHealthy)
    \/ (Quiet /\ ElseSkipped)
    \/ (Quiet /\ PingReturn)
    \/ (Quiet /\ Record)
    \/ (Quiet /\ Sleep)
    \/ (Quiet /\ HomeBegin)
    \/ (Quiet /\ HomeReadCount)
    \/ (Quiet /\ HomeReadLast)
    \/ (Quiet /\ HomeRespond)
    \/ (Quiet /\ HealthRespond)

Spec == Init /\ [][Next]_vars

\* A step of the background thread.
Runner ==
    \/ CheckKey
    \/ Increment
    \/ Stamp
    \/ ForNext
    \/ ForDone
    \/ CheckHealthReturn
    \/ IfHealthy
    \/ ElseSkipped
    \/ PingReturn
    \/ Record
    \/ Sleep

\* The main thread starts the background thread; the background thread keeps
\* being scheduled, every outbound call returns within its timeout and every
\* sleep ends; a response built is delivered.  The fairness of the thread is
\* strong because its steps are disabled while a response is being handed
\* over, which requests can cause again and again.
Fairness ==
    /\ WF_main_pc(Quiet /\ ThreadStart)
    /\ SF_pc(Quiet /\ Runner)
    /\ WF_<<response.path>>(Deliver)

SpecLive == Init /\ [][Next]_vars /\ Fairness

\* ------------------------------------------- the two outbound calls, alone

\* One call of check_health and one of ping_endpoint, each on any response
\* the network can give, made with the credential present.
InitCalls ==
    /\ RUNPOD_API_KEY = "rpa_key"
    /\ InitCycle
    /\ probe \in [arg : HealthResponses, done : { FALSE }, ret : { FALSE }]
    /\ warm \in [arg : PingResponses, done : { FALSE }, ret : { "" }]

\* check_health(ep_id, ep_name) returns
CallCheckHealth ==
    /\ ~probe.done
    /\ probe' = [probe EXCEPT !.done = TRUE, !.ret = check_health(probe.arg)]
    /\ UNCHANGED << RUNPOD_API_KEY, main_pc, runner_vars, home_vars, response, warm >>

\* ping_endpoint(ep_id, ep_name) returns
CallPingEndpoint ==
    /\ ~warm.done
    /\ warm' = [warm EXCEPT !.done = TRUE, !.ret = ping_endpoint(warm.arg)]
    /\ UNCHANGED << RUNPOD_API_KEY, main_pc, runner_vars, home_vars, response, probe >>

NextCalls ==
    \/ CallCheckHealth
    \/ CallPingEndpoint

SpecCalls == InitCalls /\ [][NextCalls]_vars

\* -------------------------------------------------------------------- claims

NameOf(i) == ENDPOINTS[i].name

\* Endpoint i's result of the running (or last) cycle has been recorded.
Recorded(i) == status.ping_count >= 1 /\ wrote[NameOf(i)] = status.ping_count

\* C1: in every cycle and for every endpoint, if check_health returned False
\* then ping_endpoint is not invoked for it in that cycle and the result
\* recorded for its display name is exactly the skipped tag; ping_endpoint
\* is invoked only after check_health returned True for the same endpoint.
C1_SkipWithoutCapacity ==
    \A i \in 1..Len(ENDPOINTS) :
        /\ trace[i].returned = "FALSE" =>
              /\ ~trace[i].pinged
              /\ trace[i].ping = NoPingCall
              /\ (pc = "ping_endpoint" => idx # i)
              /\ (Recorded(i) => status.results[NameOf(i)] = SkippedResult)
        /\ (trace[i].pinged \/ (pc = "ping_endpoint" /\ idx = i)) =>
              trace[i].returned = "TRUE"

\* A completed cycle that skipped one endpoint and pinged another.
C1_Witness ==
    /\ pc = "sleep"
    /\ \E i, j \in 1..Len(ENDPOINTS) :
          /\ trace[i].returned = "FALSE"
          /\ status.results[NameOf(i)] = SkippedResult
          /\ trace[j].returned = "TRUE"
          /\ trace[j].pinged

\* C2 (as claimed): no response of home() carries a cycle counter n together
\* with an outcome mapping that is not fully updated for cycle n.
C2_NoTornRead ==
    (response.path = "/" /\ response.json.ping_count >= 1) =>
        \A n \in EndpointNames :
            /\ n \in DOMAIN response.json.results
            /\ wrote[n] = response.json.ping_count

\* C3 (as claimed): the counter and the outcomes a root query reports are
\* those of the most recently completed cycle; stated for the queries
\* answered while no cycle is running, the case the claim does not exempt.
C3_RoundTrip ==
    (response.path = "/" /\ status.ping_count = completed) =>
        /\ response.json.ping_count = completed
        /\ \A n \in DOMAIN response.json.results : wrote[n] = completed
        /\ (completed >= 1 => DOMAIN response.json.results = EndpointNames)

\* C4: after any completed cycle the keys of status["results"] are exactly
\* the configured display names, one entry each.
C4_OneEntryPerEndpoint ==
    completed >= 1 =>
        /\ DOMAIN status.results = EndpointNames
        /\ Cardinality(DOMAIN status.results) = Len(ENDPOINTS)

\* The second cycle has completed and the thread sleeps.
C4_Witness ==
    /\ pc = "sleep"
    /\ completed = 2
    /\ DOMAIN status.results = EndpointNames

\* C5: the cycle counter starts at 0, every step that changes it adds
\* exactly 1, and it changes exactly once between two consecutive cycle
\* completions (it is the number of completed cycles, plus one while a cycle
\* runs).
C5_CounterSteps ==
    /\ status.ping_count = 0
    /\ [][status'.ping_count # status.ping_count =>
            status'.ping_count = status.ping_count + 1]_vars
    /\ [](/\ status.ping_count \in { completed, completed + 1 }
          /\ (pc \in { "sleep", "while" } => status.ping_count = completed)
          /\ (pc \in { "stamp", "for", "check_health", "if", "ping_endpoint",
                       "record" } => status.ping_count = completed + 1))

\* Two cycles have completed and the counter is 2.
C5_Witness ==
    /\ completed = 2
    /\ status.ping_count = 2

\* C6: with the credential absent the thread exits before any cycle: no
\* outbound call is ever made and the status record keeps its initial
\* value, while /health is still answered.
C6_NoKeyNoCycle ==
    RUNPOD_API_KEY = None =>
        /\ pc \in { "not_started", "entry", "exited" }
        /\ ~outbound
        /\ \A i \in 1..Len(ENDPOINTS) : trace[i] = NoTrace
        /\ status.ping_count = 0
        /\ status.last_ping = None
        /\ DOMAIN status.results = {}
        /\ (main_pc = "serving" /\ response.path = "" => ENABLED HealthRespond)
        /\ (response.path = "/health" => response.text = "OK")

\* The thread has exited for the missing credential and /health answers.
C6_Witness ==
    /\ RUNPOD_API_KEY = None
    /\ pc = "exited"
    /\ response.path = "/health"

\* C7: while the server runs, /health can be answered in every state of the
\* background thread and the answer is always the same fixed body, whatever
\* the status record holds.
C7_HealthAlwaysOK ==
    /\ (main_pc = "serving" /\ response.path = "" => ENABLED HealthRespond)
    /\ (response.path = "/health" => response.text = "OK")

\* /health answered while the thread is blocked in a ping of the first cycle.
C7_Witness ==
    /\ response.path = "/health"
    /\ pc = "ping_endpoint"
    /\ completed = 0

\* The results the claimed classification allows for a ping response.
ClaimedResults(r) ==
    IF r.kind = "timeout" THEN { "TIMEOUT" }
    ELSE IF r.kind = "connection_error" THEN { "ERROR: ConnectionError" }
    ELSE IF r.status_code \in 200..299 THEN { "OK" }
    ELSE { "HTTP " \o ToString(r.status_code) }

\* C8 (as claimed): a success status (2xx) gives ok, any other status gives
\* http-error(code) whatever the body is, an elapsed wait gives timeout and
\* any other failure gives error(detail).
C8_Classification ==
    warm.done => warm.ret \in ClaimedResults(warm.arg)

\* C9: when the ping's bounded wait elapses, the result recorded for the
\* endpoint in that cycle is the timeout tag.
C9_TimeoutRecorded ==
    \A i \in 1..Len(ENDPOINTS) :
        trace[i].ping.kind = "timeout" =>
            /\ (pc = "record" /\ idx = i => result = "TIMEOUT")
            /\ (Recorded(i) => status.results[NameOf(i)] = "TIMEOUT")

\* A ping timed out and its result has been recorded.
C9_Witness ==
    \E i \in 1..Len(ENDPOINTS) :
        /\ trace[i].ping.kind = "timeout"
        /\ Recorded(i)
        /\ status.results[NameOf(i)] = "TIMEOUT"

\* The count a health response reports for key k, 0 when it reports none.
ReportedCount(r, k) ==
    IF r.kind = "response" /\ r.body = "object" /\ r.workers = "object"
         /\ r.counts[k] # Missing
    THEN r.counts[k] ELSE 0

\* The claimed capacity predicate.
HasCapacity(r) ==
    /\ r.kind = "response"
    /\ r.body # "invalid"
    /\ (ReportedCount(r, "ready") > 0 \/ ReportedCount(r, "idle") > 0)

\* On every health response check_health returns the claimed predicate, and
\* changing the initializing count of the response never changes the return.
CheckHealthIsCapacity ==
    \A r \in HealthResponses :
        /\ check_health(r) = HasCapacity(r)
        /\ \A n \in Counts :
              check_health([r EXCEPT !.counts.initializing = n]) = check_health(r)

\* C10: check_health returns True iff a response was obtained and parsed
\* and ready > 0 or idle > 0 (missing counts are 0); the initializing count
\* never changes the result; and in a cycle whose three endpoints report
\* ready=1, ready=0/idle=0 and initializing=1/ready=0/idle=0 only the first
\* is pinged, the other two are recorded as skipped.
C10_CapacityPredicate ==
    /\ CheckHealthIsCapacity
    /\ \A i \in 1..Len(ENDPOINTS) :
          trace[i].returned # "none" =>
              trace[i].returned = ToString(HasCapacity(trace[i].health))
    /\ ( /\ pc = "sleep"
         /\ trace[1].health = HealthReport(1, Missing, Missing)
         /\ trace[2].health = HealthReport(0, 0, Missing)
         /\ trace[3].health = HealthReport(0, 0, 1)
         => /\ trace[1].pinged
            /\ ~trace[2].pinged
            /\ ~trace[3].pinged
            /\ status.results[NameOf(2)] = SkippedResult
            /\ status.results[NameOf(3)] = SkippedResult )

\* The cycle of the three reports has completed.
C10_Witness ==
    /\ pc = "sleep"
    /\ trace[1].health = HealthReport(1, Missing, Missing)
    /\ trace[2].health = HealthReport(0, 0, Missing)
    /\ trace[3].health = HealthReport(0, 0, 1)
    /\ trace[1].pinged

\* The strings a results entry can hold.
OutcomeTags ==
    { SkippedResult, "OK", "TIMEOUT" }
    \cup { "HTTP " \o ToString(c) : c \in StatusCodes }
    \cup { "ERROR: " \o e : e \in ExceptionClasses }

\* On every response the network can give, neither call lets an exception
\* out and ping_endpoint returns an outcome tag.
NothingEscapes ==
    /\ \A r \in HealthResponses : HealthEscapes(r) = ""
    /\ \A r \in PingResponses :
          PingEscapes(r) = "" /\ ping_endpoint(r) \in OutcomeTags

\* The background thread is inside the for loop.
InCycle == pc \in { "for", "check_health", "if", "ping_endpoint", "record" }

\* C11: no failure of a call (timeout, connection error, non-success status,
\* malformed body) leaves check_health or ping_endpoint or stops the thread:
\* whatever the calls of a cycle get, the thread never dies, can always take
\* its next step inside the cycle, has recorded an outcome tag for every
\* endpoint it has passed, and at the sleep has recorded one for each.
C11_FailuresStayLocal ==
    /\ NothingEscapes
    /\ pc # "died"
    /\ (InCycle => ENABLED Runner)
    /\ \A i \in 1..Len(ENDPOINTS) :
          (InCycle /\ i < idx) \/ pc = "sleep" =>
              /\ Recorded(i)
              /\ status.results[NameOf(i)] \in OutcomeTags

\* A cycle completed in which a probe failed to connect, a ping timed out
\* and a ping got a 502 with a body that is not JSON.
C11_Witness ==
    /\ pc = "sleep"
    /\ trace[1].health.kind = "connection_error"
    /\ trace[2].ping.kind = "timeout"
    /\ trace[3].ping.body = "invalid"
    /\ \A i \in 1..Len(ENDPOINTS) : Recorded(i)

\* The first cycle has written its start time.
Stamped ==
    \/ status.ping_count >= 2
    \/ (status.ping_count = 1 /\ pc # "stamp")

\* C12 (as claimed): a root query answered while no cycle has completed yet
\* reports null for the timestamp.
C12_NullUntilCompleted ==
    (response.path = "/" /\ completed = 0) => response.json.last_ping = None

\* C12 (amended): the timestamp is absent exactly until the first cycle
\* writes its start time, at the start of that cycle; a root query reports
\* null whenever no cycle has started yet, reports a timestamp only once one
\* is written, and after a completed cycle the record always holds one.
C12_NullUntilStarted ==
    /\ (status.last_ping = None) <=> ~Stamped
    /\ (response.path = "/" /\ ~Stamped => response.json.last_ping = None)
    /\ (home_pc = "results" /\ ~Stamped => home_last = None)
    /\ (completed >= 1 => status.last_ping # None)

\* A root query answered during the first cycle reports a timestamp.
C12_Witness ==
    /\ response.path = "/"
    /\ completed = 0
    /\ response.json.last_ping # None
    /\ response.json.last_ping = status.last_ping

\* A step of a request thread.
RequestStep == home_pc' # home_pc \/ response'.path # response.path

\* C13: the two routes only read: a step of a request leaves the counter,
\* the timestamp, the outcome mapping and the position of the background
\* thread unchanged and makes no outbound call; every change of the status
\* record is a step of the background thread.
C13_RoutesOnlyRead ==
    /\ [][RequestStep =>
            UNCHANGED << status, pc, idx, trace, wrote, completed, outbound >>]_vars
    /\ [][status' # status =>
            /\ pc \in { "while", "stamp", "record" }
            /\ pc' # pc
            /\ UNCHANGED << home_pc, response >>]_vars

\* A root query answered while a ping of the first cycle is in flight.
C13_Witness ==
    /\ response.path = "/"
    /\ pc = "ping_endpoint"
    /\ status.ping_count = 1

\* The endpoints with an outbound call in flight.
InFlight ==
    { i \in 1..Len(ENDPOINTS) :
        \/ (trace[i].probes >= 1 /\ trace[i].returned = "none")
        \/ (trace[i].pinged /\ trace[i].ping = NoPingCall) }

\* C14: within a cycle the endpoints are handled one at a time in list
\* order: the probe of endpoint i goes out only after every earlier endpoint
\* has been probed and recorded, the ping of an endpoint only after its probe
\* returned, and at most one call is in flight.
C14_OneAtATimeInOrder ==
    /\ Cardinality(InFlight) <= 1
    /\ \A i \in 1..Len(ENDPOINTS) :
          /\ trace[i].probes >= 1 =>
                \A j \in 1..(i - 1) :
                    /\ trace[j].probes >= 1
                    /\ trace[j].returned # "none"
                    /\ Recorded(j)
          /\ trace[i].pings >= 1 =>
                trace[i].probes >= 1 /\ trace[i].returned # "none"
          /\ Recorded(i) /\ status.ping_count > completed =>
                trace[i].returned # "none" /\ i \notin InFlight

\* The ping of the second endpoint is in flight, the first is recorded.
C14_Witness ==
    /\ pc = "ping_endpoint"
    /\ idx = 2
    /\ InFlight = { 2 }
    /\ Recorded(1)

\* C15: no retry within a cycle: every endpoint is probed at most once and
\* pinged at most once per cycle, exactly once probed when the cycle is
\* complete, whatever the outcomes; the count of an endpoint starts again
\* only when the next cycle begins, after the sleep.
C15_NoRetry ==
    /\ [](\A i \in 1..Len(ENDPOINTS) :
            /\ trace[i].probes <= 1
            /\ trace[i].pings <= 1
            /\ (pc = "sleep" => trace[i].probes = 1))
    /\ [][\A i \in 1..Len(ENDPOINTS) :
            trace'[i].probes < trace[i].probes =>
                pc = "while" /\ completed = status.ping_count]_vars

\* The second cycle has completed with a ping that timed out, tried once.
C15_Witness ==
    /\ pc = "sleep"
    /\ completed = 2
    /\ \E i \in 1..Len(ENDPOINTS) :
          /\ trace[i].ping.kind = "timeout"
          /\ trace[i].pings = 1
          /\ trace[i].probes = 1

\* C16: with the credential present the thread has no terminal state: it
\* never exits or dies, goes to sleep only from the end of the for loop and
\* leaves the sleep only for the top of the while loop, and (with every call
\* returning, every sleep ending and the thread scheduled fairly) every cycle
\* that starts completes, and whenever the thread is outside a cycle (not yet
\* started, or asleep after one) with the counter below MaxCycles, a new
\* cycle starts.
C16_RunsForever ==
    /\ [](RUNPOD_API_KEY = "rpa_key" => pc \notin { "exited", "died" })
    /\ [][/\ (pc' = "sleep" /\ pc # "sleep" => pc = "for")
          /\ (pc = "sleep" /\ pc' # "sleep" => pc' = "while")]_vars
    /\ (pc = "stamp") ~> (pc = "sleep")
    /\ (RUNPOD_API_KEY = "rpa_key" /\ ~InCycle /\ status.ping_count < MaxCycles) ~> (pc = "stamp")

\* The second cycle has started after the first completed.
C16_Witness ==
    /\ RUNPOD_API_KEY = "rpa_key"
    /\ completed = 1
    /\ status.ping_count = 2
    /\ pc = "stamp"

\* The cycles started so far: the completed ones and the running one.
CyclesStarted == completed + (IF InCycle \/ pc = "stamp" THEN 1 ELSE 0)

\* C17: the counter increment and the start time come first in a cycle:
\* while a call of cycle n is in flight, and whenever a call of the cycle has
\* been made, the counter is n and the timestamp is that of this cycle; the
\* counter is always the number of cycles started.
C17_CountedAtStart ==
    /\ status.ping_count = CyclesStarted
    /\ (pc \in { "check_health", "ping_endpoint" } =>
          /\ status.ping_count = completed + 1
          /\ status.last_ping = isoformat(clock))
    /\ \A i \in 1..Len(ENDPOINTS) :
          trace[i].probes >= 1 =>
              /\ status.ping_count >= 1
              /\ status.last_ping # None
              /\ (InCycle => status.last_ping = isoformat(clock))

\* A ping of the second cycle is in flight: one cycle completed, counter 2.
C17_Witness ==
    /\ pc = "ping_endpoint"
    /\ completed = 1
    /\ status.ping_count = 2
    /\ status.last_ping = "T2"

\* The result the running cycle computed for endpoint i.
CycleOutcome(i) ==
    IF trace[i].returned = "FALSE" THEN SkippedResult
    ELSE ping_endpoint(trace[i].ping)

\* The number of endpoints the running cycle has recorded.
RecordedCount == IF pc = "stamp" THEN 0 ELSE idx - 1

\* C18: a cycle overwrites the outcomes in place, one endpoint at a time:
\* while cycle n runs with k endpoints recorded, the first k entries hold
\* cycle n's outcomes and the others are those written by cycle n-1 (absent
\* when n = 1); the keys are always display names and no entry is ever
\* removed.
C18_OverwriteInPlace ==
    /\ [](/\ DOMAIN status.results \subseteq EndpointNames
          /\ \A i \in 1..Len(ENDPOINTS) :
                /\ (NameOf(i) \in DOMAIN status.results) <=> (wrote[NameOf(i)] >= 1)
                /\ (InCycle \/ pc = "stamp") /\ i <= RecordedCount =>
                      /\ wrote[NameOf(i)] = status.ping_count
                      /\ status.results[NameOf(i)] = CycleOutcome(i)
                /\ (InCycle \/ pc = "stamp") /\ i > RecordedCount =>
                      wrote[NameOf(i)] = status.ping_count - 1)
    /\ [][\A n \in DOMAIN status.results : n \in DOMAIN status'.results]_vars

\* Cycle 2 has recorded the first endpoint; the third still holds cycle 1's.
C18_Witness ==
    /\ pc = "check_health"
    /\ idx = 2
    /\ status.ping_count = 2
    /\ wrote[NameOf(1)] = 2
    /\ wrote[NameOf(3)] = 1
    /\ NameOf(3) \in DOMAIN status.results

\* C19: the "status" marker and the endpoint names of the root document do
\* not depend on the background thread: every root response says "running"
\* and lists all configured names, and after the thread has exited for the
\* missing credential it carries counter 0, a null timestamp and an empty
\* outcome mapping.
C19_RootConstants ==
    response.path = "/" =>
        /\ response.json.status = "running"
        /\ response.json.endpoints = << "Sam (vLLM)", "fast-worker", "quality-worker" >>
        /\ (pc = "exited" =>
              /\ response.json.ping_count = 0
              /\ response.json.last_ping = None
              /\ DOMAIN response.json.results = {})

\* A root query answered after the thread exited for the missing credential.
C19_Witness ==
    /\ response.path = "/"
    /\ pc = "exited"
    /\ RUNPOD_API_KEY = None

====
